---------------------------- MODULE Spec2Model ----------------------------
(***************************************************************************)
(* A model of the parallel bucket-mirroring downloader of cGAN_tutorial:   *)
(*   src/tf_gpu/tensorflow-env-data-setup/gcs_folder_download.py           *)
(*   src/scripts/download_training_data.py                                 *)
(*                                                                         *)
(* Strings are sequences of one-character strings, so that startswith,     *)
(* split, strip, lstrip and slicing are computed the way Python computes   *)
(* them.  Three specifications share the module:                            *)
(*   SpecParse  parse_gcs_uri applied to bounded locators                  *)
(*   SpecSkip   should_skip applied to bounded local-path states           *)
(*   Spec       a whole run of either entry point: listing, the thread     *)
(*              pool behind ex.map, the aggregation loop, the exit status, *)
(*              and a re-run against the same remote and destination       *)
(***************************************************************************)
EXTENDS Naturals, Integers, Sequences, FiniteSets, TLC

VARIABLES
    \* ---- SpecParse
    parsePc, inUri, parseOut,
    \* ---- SpecSkip
    skipPc, inNode, inSize, skipOut,
    \* ---- Spec: the inputs of a run
    entry, gcs_uri, args, skip_existing, workers, remote,
    \* ---- Spec: the local filesystem under the destination root
    fs,
    \* ---- Spec: the main thread
    pc, paths_to_download, attempts, pathIdx, prefix, dest, blobs, nextResult,
    completed, errors, seen, summary, total_completed, total_errors, status,
    raised,
    \* ---- Spec: the pool (work: the work list handed to ex.map; started: how
    \* many times a worker has called download_blob on each work item; qnext:
    \* how many work items the workers have taken off the queue; wtask and wpc:
    \* the work item a worker thread holds and where the thread is in it;
    \* cancelIdx: the future the result iterator's finally clause cancels next)
    work, futures, qnext, wtask, wpc, started, cancelIdx,
    \* ---- Spec: what the run did to the outside world (transferred and wrote:
    \* the keys whose task started a transfer, or changed the local filesystem,
    \* in the current call of download_gcs_prefix or of the folder downloader)
    clientCreated, listRequested, transferred, wrote, taskFailures,
    listFailures,
    \* ---- Spec: how many times the run could not set a download up: the
    \* destination directory, the client or the pool could not be made
    setupFailures,
    \* ---- Spec: the runs so far
    run, firstRun

parseVars == <<parsePc, inUri, parseOut>>
skipVars  == <<skipPc, inNode, inSize, skipOut>>
inputVars == <<entry, gcs_uri, args, skip_existing, workers, remote>>
mainVars  == <<pc, paths_to_download, attempts, pathIdx, prefix, dest, blobs,
               nextResult, completed, errors, seen, summary, total_completed,
               total_errors, status, raised>>
poolVars  == <<work, futures, qnext, wtask, wpc, started, cancelIdx>>
worldVars == <<clientCreated, listRequested, transferred, wrote, taskFailures,
               listFailures, setupFailures>>
runVars   == <<run, firstRun>>
vars == <<parseVars, skipVars, inputVars, fs, mainVars, poolVars,
          worldVars, runVars>>

---------------------------------------------------------------------------
(* Bounds of the model *)

\* longest remainder (the text after the head) of a locator in SpecParse
MaxRemLen == 5
\* largest byte size of a local file or remote object in SpecSkip
MaxSize == 3
\* most objects in the bucket in Spec
MaxObjects == 3
\* largest worker count (--workers) in Spec
MaxWorkers == 2
\* runs of the program against the same remote and destination in Spec
MaxRuns == 2

---------------------------------------------------------------------------
(* Strings *)

SLASH == "/"

\* the literal "gs://" of gcs_uri.startswith("gs://")
Scheme == <<"g", "s", ":", "/", "/">>

RECURSIVE StringsUpTo(_, _)
StringsUpTo(alphabet, n) ==
    IF n = 0 THEN {<<>>}
    ELSE LET shorter == StringsUpTo(alphabet, n - 1)
         IN  shorter \cup {Append(s, c) : s \in {t \in shorter : Len(t) = n - 1},
                                          c \in alphabet}

\* s[n:]
Drop(s, n) == IF n >= Len(s) THEN <<>> ELSE SubSeq(s, n + 1, Len(s))

\* s.startswith(p)
startswith(s, p) == Len(s) >= Len(p) /\ SubSeq(s, 1, Len(p)) = p

\* s.endswith("/")
endswith_slash(s) == Len(s) > 0 /\ s[Len(s)] = SLASH

\* s.lstrip("/")
RECURSIVE lstrip(_)
lstrip(s) == IF Len(s) > 0 /\ s[1] = SLASH THEN lstrip(Tail(s)) ELSE s

\* s.rstrip("/")
RECURSIVE rstrip(_)
rstrip(s) ==
    IF Len(s) > 0 /\ s[Len(s)] = SLASH THEN rstrip(SubSeq(s, 1, Len(s) - 1)) ELSE s

\* a bug that forgets to strip: the text is kept as it is
strip_kept(s) == s

\* s.strip("/")
strip(s) == rstrip(lstrip(s))

\* the position of the first "/" of s, 0 when s has none
FirstSlash(s) ==
    IF \E i \in 1..Len(s) : s[i] = SLASH
    THEN CHOOSE i \in 1..Len(s) : s[i] = SLASH /\ \A j \in 1..(i - 1) : s[j] # SLASH
    ELSE 0

\* s.split("/", 1): one part when s has no "/", else the text before the first
\* "/" and the text after it
split1(s) ==
    LET i == FirstSlash(s)
    IN  IF i = 0 THEN <<s>> ELSE <<SubSeq(s, 1, i - 1), Drop(s, i)>>

---------------------------------------------------------------------------
(* parse_gcs_uri *)

\* a bug that accepts every locator
has_scheme_always(uri) == TRUE

\* gcs_uri.startswith("gs://")
has_scheme(uri) == startswith(uri, Scheme)

\* parse_gcs_uri(gcs_uri): ValueError, or (bucket, prefix)
parse_gcs_uri(uri) ==
    IF ~has_scheme(uri)
    THEN [err |-> "ValueError", bucket |-> <<>>, prefix |-> <<>>]
    ELSE LET remainder == Drop(uri, 5)
             parts     == split1(remainder)
             stripped  == IF Len(parts) = 2 THEN strip(parts[2]) ELSE <<>>
             pfx       == IF stripped # <<>> /\ ~endswith_slash(stripped)
                          THEN Append(stripped, SLASH) ELSE stripped
         IN  [err |-> "none", bucket |-> parts[1], prefix |-> pfx]

NoParse == [err |-> "unset", bucket |-> <<>>, prefix |-> <<>>]


---------------------------------------------------------------------------
(* The local filesystem and should_skip *)

(* What is at a local path.  kind: "absent", "file" (a regular file), "dir", *)
(* "other" (exists, neither regular file nor directory: a fifo, a socket),  *)
(* "broken_link" (a symlink whose target is missing).  size is st_size.     *)
(* denied: stat() of the path raises PermissionError (an ancestor directory *)
(* is not searchable).                                                      *)
Node(k, n, d) == [kind |-> k, size |-> n, denied |-> d]
Absent    == Node("absent", 0, FALSE)
Dir       == Node("dir", 0, FALSE)
File(n)   == Node("file", n, FALSE)

\* the value or the exception of a call
Ret(v)   == [exc |-> FALSE, val |-> v]
Raise    == [exc |-> TRUE, val |-> FALSE]

\* Path.exists(): stat() follows symlinks; ENOENT is False, EACCES is raised
path_exists(node) ==
    IF node.denied THEN Raise ELSE Ret(node.kind \in {"file", "dir", "other"})

\* Path.is_file()
path_is_file(node) == IF node.denied THEN Raise ELSE Ret(node.kind = "file")

\* Path.stat().st_size
st_size(node) ==
    IF node.denied \/ node.kind \in {"absent", "broken_link"} THEN Raise
    ELSE [exc |-> FALSE, val |-> node.size]

\* a bug that drops the is_file() test
should_skip_any_kind(node, blob_size) ==
    LET e == path_exists(node)
    IN  IF e.exc THEN Ret(FALSE)
        ELSE IF e.val
             THEN LET s == st_size(node)
                  IN  IF s.exc THEN Ret(FALSE) ELSE Ret(s.val = blob_size)
             ELSE Ret(FALSE)

\* should_skip(local_path, blob): every exception of the try block is caught
\* and falls through to "return False"
should_skip(node, blob_size) ==
    LET e == path_exists(node)
    IN  IF e.exc THEN Ret(FALSE)
        ELSE IF ~e.val THEN Ret(FALSE)
        ELSE LET f == path_is_file(node)
             IN  IF f.exc THEN Ret(FALSE)
                 ELSE IF ~f.val THEN Ret(FALSE)
                 ELSE LET s == st_size(node)
                      IN  IF s.exc THEN Ret(FALSE) ELSE Ret(s.val = blob_size)

---------------------------------------------------------------------------
(* The variables of the specifications that are not running *)

ParseIdle == parsePc = "off" /\ inUri = <<>> /\ parseOut = NoParse
SkipIdle  == skipPc = "off" /\ inNode = Absent /\ inSize = 0 /\ skipOut = Ret(FALSE)
MainIdle  ==
    /\ entry = "off" /\ gcs_uri = <<>> /\ args = <<>> /\ paths_to_download = <<>>
    /\ attempts = <<>> /\ work = <<>> /\ started = <<>>
    /\ skip_existing = FALSE /\ workers = 0 /\ remote = {}
    /\ fs = <<>>
    /\ pc = "off" /\ pathIdx = 0 /\ prefix = <<>> /\ dest = <<>> /\ blobs = <<>>
    /\ nextResult = 0 /\ completed = 0 /\ errors = 0 /\ seen = <<>>
    /\ summary = <<>> /\ total_completed = 0 /\ total_errors = 0
    /\ status = -1 /\ raised = "none"
    /\ futures = <<>> /\ wtask = <<>> /\ wpc = <<>> /\ qnext = 0 /\ cancelIdx = 0
    /\ clientCreated = 0 /\ listRequested = 0 /\ transferred = {} /\ wrote = {}
    /\ taskFailures = 0 /\ listFailures = 0 /\ setupFailures = 0
    /\ run = 0 /\ firstRun = <<>>
mainAll == <<inputVars, fs, mainVars, poolVars, worldVars, runVars>>

---------------------------------------------------------------------------
(* SpecParse: parse_gcs_uri on every locator head ++ remainder *)

\* what a locator starts with: the scheme, nothing, a scheme cut short,
\* another scheme
Heads == {Scheme, <<>>, <<"g", "s", ":", "/">>, <<"s", "3", ":", "/", "/">>}
Remainders == StringsUpTo({"a", "b", SLASH}, MaxRemLen)
Locators == {h \o r : h \in Heads, r \in Remainders}

ParseInit ==
    /\ parsePc = "in" /\ inUri \in Locators /\ parseOut = NoParse
    /\ SkipIdle /\ MainIdle

ParseCall ==
    /\ parsePc = "in"
    /\ parseOut' = parse_gcs_uri(inUri)
    /\ parsePc' = "out"
    /\ UNCHANGED <<inUri, skipVars, mainAll>>

ParseNext == ParseCall
SpecParse == ParseInit /\ [][ParseNext]_vars

---------------------------------------------------------------------------
(* SpecSkip: should_skip on every local-path state and remote size *)

Nodes ==
    {Node(k, n, d) : k \in {"file", "dir", "other"}, n \in 0..MaxSize, d \in BOOLEAN}
    \cup {Node(k, 0, d) : k \in {"absent", "broken_link"}, d \in BOOLEAN}

SkipInit ==
    /\ skipPc = "in" /\ inNode \in Nodes /\ inSize \in 0..MaxSize
    /\ skipOut = Ret(FALSE)
    /\ ParseIdle /\ MainIdle

SkipCall ==
    /\ skipPc = "in"
    /\ skipOut' = should_skip(inNode, inSize)
    /\ skipPc' = "out"
    /\ UNCHANGED <<inNode, inSize, parseVars, mainAll>>

SkipNext == SkipCall
SpecSkip == SkipInit /\ [][SkipNext]_vars

---------------------------------------------------------------------------
(* Spec: the bucket, the arguments and the local filesystem of a run *)

Str(c) == <<c>>
YEAR == Str("y")

\* CONSTANTS_PATH = "constants", one path component
CONSTANTS_PATH == Str("c")

Blob(n, sz) == [name |-> n, size |-> sz]

(* The objects a bucket may hold, in the order list_blobs returns them      *)
(* (by key): c/a, y//a, y/a, y/a/b, y/b, y/d/.  y/d/ is a directory marker; *)
(* y//a and y/a differ only by a doubled separator; y/a/b needs a directory *)
(* where y/a needs a file; c/a is outside the prefix y/.                    *)
Catalogue ==
    << Blob(<<"c", "/", "a">>, 1),
       Blob(<<"y", "/", "/", "a">>, 2),
       Blob(<<"y", "/", "a">>, 1),
       Blob(<<"y", "/", "a", "/", "b">>, 1),
       Blob(<<"y", "/", "b">>, 2),
       Blob(<<"y", "/", "d", "/">>, 0) >>

CatalogueSet == {Catalogue[i] : i \in DOMAIN Catalogue}
Buckets == {r \in SUBSET CatalogueSet : Cardinality(r) <= MaxObjects}

\* the gcs_uri argument of gcs_folder_download.py: gs://k/y, and k/y
FolderUris == { Scheme \o <<"k", "/", "y">>, <<"k", "/", "y">> }

\* --custom-paths, --years and --download-constants of download_training_data.py
Args(c, y, k) == [custom_paths |-> c, years |-> y, download_constants |-> k]
TrainingArgs ==
    { Args(<<>>, <<>>, FALSE),
      Args(<<>>, <<YEAR>>, FALSE),
      Args(<<>>, <<YEAR>>, TRUE),
      Args(<<CONSTANTS_PATH>>, <<YEAR>>, FALSE) }

\* paths_to_download as main computes it from the arguments
paths_of(a) ==
    IF a.custom_paths # <<>> THEN a.custom_paths
    ELSE a.years \o (IF a.download_constants THEN <<CONSTANTS_PATH>> ELSE <<>>)

\* bucket.list_blobs(prefix=prefix), materialized: the objects whose key
\* starts with the prefix, in key order
has_prefix(b, pfx) == startswith(b.name, pfx)
list_blobs(bucket, pfx) ==
    SelectSeq(Catalogue, LAMBDA b : b \in bucket /\ has_prefix(b, pfx))

(* A local path is the sequence of its components below the destination     *)
(* root of the command line (--dest); the filesystem maps the paths that     *)
(* exist to what is there.  The root itself, the empty path, is a directory  *)
(* (or can be made one) unless the filesystem says what else is there.       *)
RECURSIVE Components(_)
Components(s) ==
    IF s = <<>> THEN <<>>
    ELSE IF s[1] = SLASH THEN Components(Tail(s))
    ELSE LET i == FirstSlash(s)
         IN  IF i = 0 THEN <<s>>
             ELSE <<SubSeq(s, 1, i - 1)>> \o Components(Drop(s, i))

Parent(p) == SubSeq(p, 1, Len(p) - 1)
Lookup(f, p) == IF p \in DOMAIN f THEN f[p] ELSE IF p = <<>> THEN Dir ELSE Absent
Put(f, p, n) == [q \in DOMAIN f \cup {p} |-> IF q = p THEN n ELSE f[q]]
EmptyFs == <<>>

\* Path.mkdir(parents=True, exist_ok=True): the missing directories of d are
\* made from the root down; a component that exists and is no directory
\* raises, and so does a root that is no directory
RECURSIVE mkdir_from(_, _, _)
mkdir_from(f, d, k) ==
    IF k > Len(d) THEN [exc |-> FALSE, fs |-> f]
    ELSE LET p == SubSeq(d, 1, k)
             n == Lookup(f, p)
         IN  IF n.kind = "dir" THEN mkdir_from(f, d, k + 1)
             ELSE IF n.kind = "absent" THEN mkdir_from(Put(f, p, Dir), d, k + 1)
             ELSE [exc |-> TRUE, fs |-> f]
mkdir_parents(f, d) ==
    IF Lookup(f, <<>>).kind # "dir" THEN [exc |-> TRUE, fs |-> f]
    ELSE mkdir_from(f, d, 1)

\* open(filename, "wb") inside download_to_filename: a directory raises,
\* anything else becomes an empty regular file
open_wb(f, p) ==
    IF Lookup(f, p).kind = "dir" THEN [exc |-> TRUE, fs |-> f]
    ELSE [exc |-> FALSE, fs |-> Put(f, p, File(0))]

\* the handle of open(filename, "wb") writes `size` bytes from offset 0 and
\* is closed: the file has the written bytes, and keeps what another handle
\* on the same file has written beyond them since the open
write_wb(f, p, size) ==
    LET n    == Lookup(f, p)
        have == IF n.kind = "file" THEN n.size ELSE 0
    IN  Put(f, p, File(IF have > size THEN have ELSE size))

\* what lies at the destination before the first run: nothing; a file where
\* y/b goes, of y/b's size or smaller; a regular file where the destination
\* directory itself should be (--dest); a regular file named y in the
\* destination, where download_training_data.py needs the directory dest/y
LocalStarts == {"empty", "b_same", "b_smaller", "dest_is_file", "y_is_file"}
start_fs(local, e) ==
    LET d == IF e = "training" THEN <<YEAR>> ELSE <<>>
        f == mkdir_parents(EmptyFs, d).fs
    IN  CASE local = "empty"        -> EmptyFs
          [] local = "dest_is_file" -> Put(EmptyFs, <<>>, File(0))
          [] local = "y_is_file"    -> Put(EmptyFs, <<YEAR>>, File(0))
          [] OTHER -> Put(f, d \o <<Str("b")>>, File(IF local = "b_same" THEN 2 ELSE 1))

---------------------------------------------------------------------------
(* Spec: download_blob *)

\* the leading text of the three strings download_blob returns
OK_RESULT   == <<"O", "K", " ", " ", " ", ":">>
SKIP_RESULT == <<"S", "K", "I", "P", " ", ":">>
DIR_RESULT  == <<"D", "I", "R", " ", " ", ":">>

\* a bug that takes no key for a directory marker
is_marker_never(name) == FALSE

\* blob.name.endswith("/")
is_marker(name) == endswith_slash(name)

\* rel = blob.name[len(base_prefix):].lstrip("/")
rel_of(name, base_prefix) == lstrip(Drop(name, Len(base_prefix)))

\* local_path = Path(dest_dir) / rel
local_path(dest_dir, rel) == dest_dir \o Components(rel)

\* the local path of a work item: lines 56 and 57 of download_blob
item_path(a) == local_path(a.dest_dir, rel_of(a.blob.name, a.base_prefix))

\* local_path.parent.mkdir(parents=True, exist_ok=True)
download_blob_mkdir(f, a) == mkdir_parents(f, Parent(item_path(a)))

\* skip_existing and should_skip(local_path, blob)
download_blob_skip(f, a) ==
    a.skip_existing /\ should_skip(Lookup(f, item_path(a)), a.blob.size).val

\* blob.download_to_filename(str(local_path), ...): the open of the local file
download_blob_open(f, a) == open_wb(f, item_path(a))

\* blob.download_to_filename(str(local_path), retry=retry), the content
\* written to the opened file
download_blob_write(f, a) == write_wb(f, item_path(a), a.blob.size)

\* how blob.download_to_filename(str(local_path), retry=retry) ends once the
\* file is open: it returns, or an exception leaves it.  What happens inside
\* the call (the requests, the retries under the Retry object of line 68) is
\* the client library's and is no part of these sources.
Fates == {"OK", "Error"}

---------------------------------------------------------------------------
(* Spec: the futures of ex.map and the aggregation loop *)

\* one item of the work list: (b, prefix, dest_dir, args.skip_existing, chunk_size),
\* without the chunk size
WorkItem(b, pfx, d, skip) ==
    [blob |-> b, base_prefix |-> pfx, dest_dir |-> d, skip_existing |-> skip]

Fut(st, res) == [state |-> st, result |-> res]
Pending == Fut("pending", <<>>)

Count(fu, st) == Cardinality({i \in DOMAIN fu : fu[i].state = st})
CountResult(fu, res) ==
    Cardinality({i \in DOMAIN fu : fu[i].state = "done" /\ fu[i].result = res})

\* a bug that counts every result as a download
tally_all(result, done, errs) == [completed |-> done + 1, errors |-> errs]

\* a bug that forgets the branch of the directory markers
tally_without_dir(result, done, errs) ==
    IF startswith(result, <<"O", "K">>) THEN [completed |-> done + 1, errors |-> errs]
    ELSE IF startswith(result, <<"S", "K", "I", "P">>) THEN [completed |-> done, errors |-> errs]
    ELSE [completed |-> done, errors |-> errs + 1]

\* the body of "for result in ex.map(...)": completed and errors after result
tally(result, done, errs) ==
    IF startswith(result, <<"O", "K">>) THEN [completed |-> done + 1, errors |-> errs]
    ELSE IF startswith(result, <<"S", "K", "I", "P">>) THEN [completed |-> done, errors |-> errs]
    ELSE IF startswith(result, <<"D", "I", "R">>) THEN [completed |-> done, errors |-> errs]
    ELSE [completed |-> done, errors |-> errs + 1]

\* Future.cancel(): a future that has not started is cancelled, a running or
\* finished one is left as it is
cancel(fut) == IF fut.state = "pending" THEN Fut("cancelled", <<>>) ELSE fut

\* the exit status of a Python process that ends with an uncaught exception
UncaughtExit == 1

\* a bug that reports success whatever happened
exit_status_zero(errs) == 0

\* return 0 if total_errors == 0 else 1
exit_status(errs) == IF errs = 0 THEN 0 ELSE 1

---------------------------------------------------------------------------
(* Spec: a run of gcs_folder_download.py or of download_training_data.py *)

\* the main thread, the pool and the counters as a run starts
FreshRun ==
    /\ pc = IF entry = "folder" THEN "parse" ELSE "args"
    /\ paths_to_download = <<>> /\ pathIdx = 0 /\ prefix = <<>> /\ dest = <<>>
    /\ attempts = <<>> /\ work = <<>> /\ started = <<>>
    /\ blobs = <<>> /\ nextResult = 0 /\ completed = 0 /\ errors = 0
    /\ seen = <<>> /\ summary = <<>> /\ total_completed = 0 /\ total_errors = 0
    /\ status = -1 /\ raised = "none"
    /\ futures = <<>> /\ wtask = [w \in 1..workers |-> 0]
    /\ wpc = [w \in 1..workers |-> "idle"] /\ qnext = 0 /\ cancelIdx = 0
    /\ clientCreated = 0 /\ listRequested = 0 /\ transferred = {} /\ wrote = {}
    /\ taskFailures = 0 /\ listFailures = 0 /\ setupFailures = 0

Init ==
    /\ ParseIdle /\ SkipIdle
    /\ \/ entry = "folder" /\ gcs_uri \in FolderUris /\ args = <<>>
       \/ entry = "training" /\ gcs_uri = <<>> /\ args \in TrainingArgs
    /\ skip_existing \in BOOLEAN
    /\ workers \in 0..MaxWorkers
    /\ remote \in Buckets
    /\ \E local \in LocalStarts : fs = start_fs(local, entry)
    /\ FreshRun
    /\ run = 1 /\ firstRun = <<>>

others == <<parseVars, skipVars, inputVars, runVars>>

\* a bug that ends the loop over the paths at the first exception (break
\* where the code has continue)
Propagate_stops(exc) ==
    IF entry = "folder"
    THEN /\ raised' = exc /\ status' = UncaughtExit /\ pc' = "done"
         /\ UNCHANGED <<pathIdx, total_errors>>
    ELSE /\ raised' = "none" /\ status' = status /\ pc' = "path"
         /\ total_errors' = total_errors + 1
         /\ pathIdx' = Len(paths_to_download) + 1

(* An exception leaves download_gcs_prefix or the body of main.  In          *)
(* gcs_folder_download.py nothing catches it and the process ends with it;  *)
(* in download_training_data.py main's "except Exception" counts one error  *)
(* and goes on with the next path.                                          *)
Propagate(exc) ==
    IF entry = "folder"
    THEN /\ raised' = exc /\ status' = UncaughtExit /\ pc' = "done"
         /\ UNCHANGED <<pathIdx, total_errors>>
    ELSE /\ raised' = "none" /\ status' = status /\ pc' = "path"
         /\ total_errors' = total_errors + 1
         /\ pathIdx' = pathIdx + 1

\* download_training_data.main: paths_to_download from the arguments; none is
\* a usage error, return 1
MainArgs ==
    /\ pc = "args"
    /\ paths_to_download' = paths_of(args)
    /\ IF paths_of(args) = <<>>
       THEN pc' = "done" /\ status' = 1 /\ pathIdx' = pathIdx
       ELSE pc' = "path" /\ status' = status /\ pathIdx' = 1
    /\ UNCHANGED <<attempts, prefix, dest, blobs, nextResult, completed, errors,
                   seen, summary, total_completed, total_errors, raised, fs,
                   poolVars, worldVars, others>>

\* gcs_folder_download.main: parse_gcs_uri, then the destination directory
\* is made (--dest itself: the root of the local paths)
MainParse ==
    /\ pc = "parse"
    /\ LET r  == parse_gcs_uri(gcs_uri)
           mk == mkdir_parents(fs, <<>>)
       IN  IF r.err # "none"
           THEN /\ Propagate(r.err)
                /\ UNCHANGED <<prefix, dest, fs, setupFailures>>
           ELSE IF mk.exc
           THEN /\ Propagate("OSError")
                /\ setupFailures' = setupFailures + 1
                /\ UNCHANGED <<prefix, dest, fs>>
           ELSE /\ prefix' = r.prefix /\ dest' = <<>> /\ pc' = "client"
                /\ fs' = mk.fs
                /\ UNCHANGED <<raised, status, pathIdx, total_errors, setupFailures>>
    /\ UNCHANGED <<paths_to_download, attempts, blobs, nextResult, completed, errors, seen,
                   summary, total_completed, poolVars, clientCreated, listRequested,
                   transferred, wrote, taskFailures, listFailures, others>>

\* download_training_data.main: the head of "for path in paths_to_download",
\* and download_gcs_prefix up to the destination directory (the locals of the
\* call before are gone); after the last path, the exit status
MainPath ==
    /\ pc = "path"
    /\ IF pathIdx > Len(paths_to_download)
       THEN /\ status' = exit_status(total_errors) /\ pc' = "done"
            /\ UNCHANGED <<attempts, prefix, dest, fs, raised, pathIdx, total_errors,
                           setupFailures>>
       ELSE LET path == paths_to_download[pathIdx]
                mk   == mkdir_parents(fs, Components(path))
            IN  /\ attempts' = Append(attempts, path)
                /\ fs' = mk.fs
                /\ IF mk.exc
                   THEN /\ Propagate("OSError")
                        /\ setupFailures' = setupFailures + 1
                        /\ UNCHANGED <<prefix, dest>>
                   ELSE /\ prefix' = path /\ dest' = Components(path) /\ pc' = "client"
                        /\ UNCHANGED <<raised, status, pathIdx, total_errors,
                                       setupFailures>>
    /\ summary' = <<>> /\ blobs' = <<>> /\ futures' = <<>>
    /\ work' = <<>> /\ started' = <<>> /\ qnext' = 0
    /\ nextResult' = 0 /\ completed' = 0 /\ errors' = 0 /\ seen' = <<>>
    /\ transferred' = {} /\ wrote' = {}
    /\ UNCHANGED <<paths_to_download, total_completed, wtask, wpc, cancelIdx,
                   clientCreated, listRequested, taskFailures, listFailures,
                   others>>

\* storage.Client.from_service_account_json raises: the key file is missing
\* or is no service account key
MainClientFails ==
    /\ pc = "client"
    /\ setupFailures' = setupFailures + 1
    /\ Propagate("ClientError")
    /\ UNCHANGED <<paths_to_download, attempts, prefix, dest, blobs, nextResult, completed,
                   errors, seen, summary, total_completed, fs, poolVars,
                   clientCreated, listRequested, transferred, wrote, taskFailures,
                   listFailures, others>>

\* storage.Client.from_service_account_json and client.bucket; in
\* download_gcs_prefix also "if prefix and not prefix.endswith('/')"
MainClient ==
    /\ pc = "client"
    /\ clientCreated' = clientCreated + 1
    /\ prefix' = IF entry = "training" /\ prefix # <<>> /\ ~endswith_slash(prefix)
                 THEN Append(prefix, SLASH) ELSE prefix
    /\ pc' = "list"
    /\ UNCHANGED <<paths_to_download, attempts, pathIdx, dest, blobs, nextResult, completed,
                   errors, seen, summary, total_completed, total_errors, status,
                   raised, fs, poolVars, listRequested, transferred, wrote,
                   taskFailures, listFailures, others,
                   setupFailures>>

\* a bug that takes a failed listing for an empty one
MainListFails_as_empty ==
    /\ pc = "list"
    /\ listRequested' = listRequested + 1
    /\ listFailures' = listFailures + 1
    /\ IF entry = "folder"
       THEN pc' = "done" /\ status' = 0 /\ pathIdx' = pathIdx
       ELSE pc' = "path" /\ status' = status /\ pathIdx' = pathIdx + 1
    /\ UNCHANGED <<paths_to_download, attempts, prefix, dest, blobs, nextResult, completed,
                   errors, seen, summary, total_completed, total_errors, raised, fs,
                   poolVars, clientCreated, transferred, wrote, taskFailures, others,
                   setupFailures>>

\* list(bucket.list_blobs(prefix=prefix)) raises: authorization, network
MainListFails ==
    /\ pc = "list"
    /\ listRequested' = listRequested + 1
    /\ listFailures' = listFailures + 1
    /\ Propagate("ListingError")
    /\ UNCHANGED <<paths_to_download, attempts, prefix, dest, blobs, nextResult, completed,
                   errors, seen, summary, total_completed, fs, poolVars,
                   clientCreated, transferred, wrote, taskFailures, others,
                   setupFailures>>

\* list(bucket.list_blobs(prefix=prefix)) returns; "if not blobs: return"
MainList ==
    /\ pc = "list"
    /\ listRequested' = listRequested + 1
    /\ blobs' = list_blobs(remote, prefix)
    /\ IF list_blobs(remote, prefix) = <<>>
       THEN IF entry = "folder"
            THEN pc' = "done" /\ status' = 0 /\ pathIdx' = pathIdx
            ELSE pc' = "path" /\ status' = status /\ pathIdx' = pathIdx + 1
       ELSE pc' = "submit" /\ status' = status /\ pathIdx' = pathIdx
    /\ UNCHANGED <<paths_to_download, attempts, prefix, dest, nextResult, completed, errors,
                   seen, summary, total_completed, total_errors, raised, fs,
                   poolVars, clientCreated, transferred, wrote, taskFailures,
                   listFailures, others,
                   setupFailures>>

\* the actions that run while the pool is open: from the first submit of
\* ex.map to the end of the with block
PoolOpen == {"submit", "consume", "cancel", "exit_pool"}

\* The work list and the counters, then ThreadPoolExecutor(max_workers=
\* workers) raises ValueError: --workers is not greater than 0
MainPoolFails ==
    /\ pc = "submit"
    /\ workers <= 0
    /\ work' = [i \in 1..Len(blobs) |-> WorkItem(blobs[i], prefix, dest, skip_existing)]
    /\ completed' = 0 /\ errors' = 0
    /\ setupFailures' = setupFailures + 1
    /\ Propagate("ValueError")
    /\ UNCHANGED <<paths_to_download, attempts, prefix, dest, blobs, nextResult, seen,
                   summary, total_completed, fs, futures, qnext, wtask, wpc, started,
                   cancelIdx, clientCreated, listRequested, transferred, wrote,
                   taskFailures, listFailures, others>>

(* The work list and ThreadPoolExecutor(max_workers=workers), before the    *)
(* first submit; then one self.submit(fn, *args) of ex.map: a future is     *)
(* made and its work item is put on the queue, in listing order.  The       *)
(* worker threads run from the first submit on; the result iterator is      *)
(* returned after the last.                                                 *)
MainSubmit ==
    /\ pc = "submit"
    /\ workers > 0
    /\ Len(futures) < Len(blobs)
    /\ work' = [i \in 1..Len(blobs) |-> WorkItem(blobs[i], prefix, dest, skip_existing)]
    /\ futures' = Append(futures, Pending)
    /\ started' = Append(started, 0)
    /\ completed' = 0 /\ errors' = 0 /\ seen' = <<>> /\ nextResult' = 1
    /\ pc' = IF Len(futures) + 1 = Len(blobs) THEN "consume" ELSE "submit"
    /\ UNCHANGED <<paths_to_download, attempts, pathIdx, prefix, dest, blobs, summary,
                   total_completed, total_errors, status, raised, fs, qnext, wtask,
                   wpc, cancelIdx, worldVars, others>>

\* worker w is done with its work item i, whose future is now fut: the thread
\* is back at work_queue.get
EndTask(w, i, fut) ==
    /\ futures' = [futures EXCEPT ![i] = fut]
    /\ wtask' = [wtask EXCEPT ![w] = 0]
    /\ wpc' = [wpc EXCEPT ![w] = "idle"]

\* worker w goes on to the next step of its work item
StepTo(w, step) ==
    /\ wpc' = [wpc EXCEPT ![w] = step]
    /\ UNCHANGED <<futures, wtask>>

\* the steps of a worker in which download_blob has returned or raised and
\* the future is not yet set
Returning == {"return_OK", "return_SKIP", "return_DIR", "raise"}

\* a bug that lets a worker that still holds a work item take another one
WorkerGet_busy(w) ==
    /\ pc \in PoolOpen
    /\ w <= workers
    /\ qnext < Len(futures)
    /\ qnext' = qnext + 1
    /\ IF futures[qnext + 1].state = "cancelled"
       THEN UNCHANGED <<wtask, wpc>>
       ELSE /\ wtask' = [wtask EXCEPT ![w] = qnext + 1]
            /\ wpc' = [wpc EXCEPT ![w] = "got"]
    /\ UNCHANGED <<mainVars, fs, work, futures, started, cancelIdx, worldVars, others>>

(* work_queue.get(): an idle worker thread takes the first work item off    *)
(* the queue.  The threads of the pool are alike, so the lowest idle one    *)
(* takes it.  A work item whose future is cancelled already is dropped by   *)
(* its run() at once.                                                       *)
WorkerGet(w) ==
    /\ pc \in PoolOpen
    /\ w <= workers
    /\ wpc[w] = "idle"
    /\ \A v \in 1..(w - 1) : wpc[v] # "idle"
    /\ qnext < Len(futures)
    /\ qnext' = qnext + 1
    /\ IF futures[qnext + 1].state = "cancelled"
       THEN UNCHANGED <<wtask, wpc>>
       ELSE /\ wtask' = [wtask EXCEPT ![w] = qnext + 1]
            /\ wpc' = [wpc EXCEPT ![w] = "got"]
    /\ UNCHANGED <<mainVars, fs, work, futures, started, cancelIdx, worldVars, others>>

(* _WorkItem.run: set_running_or_notify_cancel() drops the item when its    *)
(* future was cancelled; else the future is running and download_blob is    *)
(* called, whose first test sends a directory marker to its return.         *)
WorkerRun(w) ==
    /\ pc \in PoolOpen
    /\ w <= workers
    /\ wpc[w] = "got"
    /\ LET i == wtask[w]
       IN  IF futures[i].state = "cancelled"
           THEN /\ EndTask(w, i, futures[i])
                /\ UNCHANGED started
           ELSE /\ started' = [started EXCEPT ![i] = @ + 1]
                /\ futures' = [futures EXCEPT ![i] = Fut("running", <<>>)]
                /\ wpc' = [wpc EXCEPT ![w] =
                              IF is_marker(work[i].blob.name) THEN "return_DIR" ELSE "mkdir"]
                /\ UNCHANGED wtask
    /\ UNCHANGED <<mainVars, fs, work, qnext, cancelIdx, worldVars, others>>

\* download_blob, lines 56 to 58: the local path and the mkdir of its parent
WorkerMkdir(w) ==
    /\ pc \in PoolOpen
    /\ w <= workers
    /\ wpc[w] = "mkdir"
    /\ LET i  == wtask[w]
           mk == download_blob_mkdir(fs, work[i])
       IN  /\ fs' = mk.fs
           /\ wrote' = IF mk.fs # fs THEN wrote \cup {work[i].blob.name} ELSE wrote
           /\ StepTo(w, IF mk.exc THEN "raise"
                        ELSE IF work[i].skip_existing THEN "skip" ELSE "open")
    /\ UNCHANGED <<mainVars, work, qnext, started, cancelIdx, clientCreated,
                   listRequested, transferred, taskFailures, listFailures, others,
                   setupFailures>>

\* download_blob, lines 60 and 61: skip_existing and should_skip
WorkerSkip(w) ==
    /\ pc \in PoolOpen
    /\ w <= workers
    /\ wpc[w] = "skip"
    /\ StepTo(w, IF download_blob_skip(fs, work[wtask[w]]) THEN "return_SKIP" ELSE "open")
    /\ UNCHANGED <<mainVars, fs, work, qnext, started, cancelIdx, worldVars, others>>

\* download_blob, line 69: download_to_filename opens the local file for
\* writing and the transfer starts
WorkerOpen(w) ==
    /\ pc \in PoolOpen
    /\ w <= workers
    /\ wpc[w] = "open"
    /\ LET i  == wtask[w]
           op == download_blob_open(fs, work[i])
       IN  /\ fs' = op.fs
           /\ wrote' = IF op.fs # fs THEN wrote \cup {work[i].blob.name} ELSE wrote
           /\ transferred' = IF op.exc THEN transferred
                             ELSE transferred \cup {work[i].blob.name}
           /\ StepTo(w, IF op.exc THEN "raise" ELSE "transfer")
    /\ UNCHANGED <<mainVars, work, qnext, started, cancelIdx, clientCreated,
                   listRequested, taskFailures, listFailures, others,
                   setupFailures>>

\* the transfer of a worker ends: the content is written and the file
\* closed, or the exception of the transfer leaves download_to_filename
WorkerFinish(w) ==
    /\ pc \in PoolOpen
    /\ w <= workers
    /\ wpc[w] = "transfer"
    /\ LET a == work[wtask[w]]
       IN  \E fate \in Fates :
              IF fate = "OK"
              THEN /\ fs' = download_blob_write(fs, a)
                   /\ wrote' = IF download_blob_write(fs, a) # fs
                               THEN wrote \cup {a.blob.name} ELSE wrote
                   /\ StepTo(w, "return_OK")
              ELSE /\ fs' = fs /\ wrote' = wrote
                   /\ StepTo(w, "raise")
    /\ UNCHANGED <<mainVars, work, qnext, started, cancelIdx, clientCreated,
                   listRequested, transferred, taskFailures, listFailures, others,
                   setupFailures>>

\* download_blob returns its string or lets its exception out, and run()
\* sets the future: set_result, set_exception
WorkerReturn(w) ==
    /\ pc \in PoolOpen
    /\ w <= workers
    /\ wpc[w] \in Returning
    /\ LET i == wtask[w]
       IN  CASE wpc[w] = "return_OK"   -> EndTask(w, i, Fut("done", OK_RESULT))
             [] wpc[w] = "return_SKIP" -> EndTask(w, i, Fut("done", SKIP_RESULT))
             [] wpc[w] = "return_DIR"  -> EndTask(w, i, Fut("done", DIR_RESULT))
             [] wpc[w] = "raise"       -> EndTask(w, i, Fut("raised", <<>>))
    /\ taskFailures' = IF wpc[w] = "raise" THEN taskFailures + 1 ELSE taskFailures
    /\ UNCHANGED <<mainVars, fs, work, qnext, started, cancelIdx, clientCreated,
                   listRequested, transferred, wrote, listFailures, others,
                   setupFailures>>

\* a bug that yields the results as they complete: any finished task's result
\* is folded next, whatever its place in the work list
MainConsume_as_completed ==
    /\ pc = "consume"
    /\ nextResult <= Len(futures)
    /\ \E j \in nextResult..Len(futures) :
          /\ futures[j].state = "done"
          /\ LET t == tally(futures[j].result, completed, errors)
             IN  completed' = t.completed /\ errors' = t.errors
          /\ seen' = Append(seen, futures[j].result)
    /\ nextResult' = nextResult + 1
    /\ UNCHANGED <<pc, paths_to_download, attempts, pathIdx, prefix, dest, blobs, summary,
                   total_completed, total_errors, status, raised, fs, poolVars,
                   worldVars, others>>

\* "for result in ex.map(...)": the next result, in submission order, once
\* its future is done, and the body of the loop
MainConsume ==
    /\ pc = "consume"
    /\ nextResult <= Len(futures)
    /\ futures[nextResult].state = "done"
    /\ LET t == tally(futures[nextResult].result, completed, errors)
       IN  completed' = t.completed /\ errors' = t.errors
    /\ seen' = Append(seen, futures[nextResult].result)
    /\ nextResult' = nextResult + 1
    /\ UNCHANGED <<pc, paths_to_download, attempts, pathIdx, prefix, dest, blobs, summary,
                   total_completed, total_errors, status, raised, fs, poolVars,
                   worldVars, others>>

\* the next future raised: fut.result() raises in the result iterator, whose
\* finally clause then cancels the futures it still holds, the last first
MainConsumeRaises ==
    /\ pc = "consume"
    /\ nextResult <= Len(futures)
    /\ futures[nextResult].state = "raised"
    /\ raised' = "TaskError"
    /\ IF nextResult < Len(futures)
       THEN pc' = "cancel" /\ cancelIdx' = Len(futures)
       ELSE pc' = "exit_pool" /\ cancelIdx' = 0
    /\ UNCHANGED <<paths_to_download, attempts, pathIdx, prefix, dest, blobs, nextResult,
                   completed, errors, seen, summary, total_completed, total_errors,
                   status, fs, work, futures, qnext, wtask, wpc, started, worldVars,
                   others>>

\* "for future in fs: future.cancel()": one cancel, of the last future not yet
\* visited; after the future that follows the raised one the exception goes on
MainCancel ==
    /\ pc = "cancel"
    /\ futures' = [futures EXCEPT ![cancelIdx] = cancel(@)]
    /\ IF cancelIdx > nextResult + 1
       THEN pc' = "cancel" /\ cancelIdx' = cancelIdx - 1
       ELSE pc' = "exit_pool" /\ cancelIdx' = 0
    /\ UNCHANGED <<paths_to_download, attempts, pathIdx, prefix, dest, blobs, nextResult,
                   completed, errors, seen, summary, total_completed, total_errors,
                   status, raised, fs, work, qnext, wtask, wpc, started, worldVars,
                   others>>

\* a bug that lets the loop end before the results are exhausted
MainLoopEnds_early ==
    /\ pc = "consume"
    /\ pc' = "exit_pool"
    /\ UNCHANGED <<paths_to_download, attempts, pathIdx, prefix, dest, blobs, nextResult,
                   completed, errors, seen, summary, total_completed, total_errors,
                   status, raised, fs, poolVars, worldVars, others>>

\* the results are exhausted: the loop ends
MainLoopEnds ==
    /\ pc = "consume"
    /\ nextResult > Len(futures)
    /\ pc' = "exit_pool"
    /\ UNCHANGED <<paths_to_download, attempts, pathIdx, prefix, dest, blobs, nextResult,
                   completed, errors, seen, summary, total_completed, total_errors,
                   status, raised, fs, poolVars, worldVars, others>>

\* the end of the with block, shutdown(wait=True), returns when the worker
\* threads have emptied the queue and ended; then the summary line (and, in download_gcs_prefix,
\* "return completed, errors" and the totals of main)
MainExitPool ==
    /\ pc = "exit_pool"
    /\ qnext = Len(futures)
    /\ \A w \in DOMAIN wpc : wpc[w] = "idle"
    /\ raised = "none"
    /\ summary' = [Successful |-> completed, Errors |-> errors, Total |-> Len(blobs)]
    /\ IF entry = "folder"
       THEN /\ pc' = "done" /\ status' = 0
            /\ UNCHANGED <<total_completed, total_errors, pathIdx>>
       ELSE /\ pc' = "path" /\ status' = status
            /\ total_completed' = total_completed + completed
            /\ total_errors' = total_errors + errors
            /\ pathIdx' = pathIdx + 1
    /\ UNCHANGED <<paths_to_download, attempts, prefix, dest, blobs, nextResult, completed,
                   errors, seen, raised, fs, poolVars, worldVars, others>>

\* the end of the with block with an exception on its way out
MainExitPoolRaising ==
    /\ pc = "exit_pool"
    /\ qnext = Len(futures)
    /\ \A w \in DOMAIN wpc : wpc[w] = "idle"
    /\ raised # "none"
    /\ Propagate(raised)
    /\ UNCHANGED <<paths_to_download, attempts, prefix, dest, blobs, nextResult, completed,
                   errors, seen, summary, total_completed, fs, poolVars, worldVars,
                   others>>

\* the program is run again, with the same arguments, against the same bucket
\* and the destination as the run before left it
Rerun ==
    /\ pc = "done"
    /\ run < MaxRuns
    /\ run' = run + 1
    /\ firstRun' = [status |-> status, transferred |-> transferred]
    /\ pc' = IF entry = "folder" THEN "parse" ELSE "args"
    /\ paths_to_download' = <<>> /\ pathIdx' = 0 /\ prefix' = <<>> /\ dest' = <<>>
    /\ attempts' = <<>> /\ work' = <<>> /\ started' = <<>>
    /\ blobs' = <<>> /\ nextResult' = 0 /\ completed' = 0 /\ errors' = 0
    /\ seen' = <<>> /\ summary' = <<>> /\ total_completed' = 0
    /\ total_errors' = 0 /\ status' = -1 /\ raised' = "none"
    /\ futures' = <<>> /\ wtask' = [w \in 1..workers |-> 0]
    /\ wpc' = [w \in 1..workers |-> "idle"] /\ qnext' = 0 /\ cancelIdx' = 0
    /\ clientCreated' = 0 /\ listRequested' = 0 /\ transferred' = {}
    /\ wrote' = {} /\ taskFailures' = 0 /\ listFailures' = 0
    /\ setupFailures' = 0
    /\ UNCHANGED <<parseVars, skipVars, inputVars, fs>>

Next ==
    \/ MainArgs \/ MainParse \/ MainPath \/ MainClientFails \/ MainClient
    \/ MainListFails \/ MainList \/ MainPoolFails
    \/ MainSubmit \/ MainConsume \/ MainConsumeRaises \/ MainLoopEnds
    \/ MainCancel \/ MainExitPool \/ MainExitPoolRaising \/ Rerun
    \/ \E w \in 1..MaxWorkers : WorkerGet(w)
    \/ \E w \in 1..MaxWorkers : WorkerRun(w)
    \/ \E w \in 1..MaxWorkers : WorkerMkdir(w)
    \/ \E w \in 1..MaxWorkers : WorkerSkip(w)
    \/ \E w \in 1..MaxWorkers : WorkerOpen(w)
    \/ \E w \in 1..MaxWorkers : WorkerFinish(w)
    \/ \E w \in 1..MaxWorkers : WorkerReturn(w)

Spec == Init /\ [][Next]_vars

---------------------------------------------------------------------------
(* The claims *)

Slashes(n) == [i \in 1..n |-> SLASH]
OnlySlashes(s) == \A i \in 1..Len(s) : s[i] = SLASH

(* C8: should_skip returns true if and only if a regular file is at the     *)
(* local path and its size equals the remote object's size; a missing file, *)
(* a non-regular file, a size mismatch or an error of the filesystem gives  *)
(* false, and no exception leaves should_skip.                              *)
C8_ShouldSkipIff ==
    skipPc = "out" =>
        /\ skipOut.exc = FALSE
        /\ skipOut.val <=> (/\ inNode.kind = "file"
                            /\ ~inNode.denied
                            /\ inNode.size = inSize)

\* true on a regular file of equal size
C8_Witness ==
    /\ skipPc = "out" /\ inNode = File(2) /\ inSize = 2 /\ skipOut = Ret(TRUE)

(* C9: for a locator that begins with gs://, parse_gcs_uri splits the rest  *)
(* at its first "/" into bucket and path, and the prefix it returns is the  *)
(* path without its leading and trailing "/" plus one "/", or is empty when *)
(* the path is empty or only "/": gs://b/a/b gives ("b", "a/b/").           *)
C9_ParseSplitsAndNormalises ==
    (parsePc = "out" /\ Len(inUri) >= 5 /\ SubSeq(inUri, 1, 5) = Scheme) =>
        LET rem  == SubSeq(inUri, 6, Len(inUri))
            b    == parseOut.bucket
            p    == parseOut.prefix
            rest == SubSeq(rem, Len(b) + 2, Len(rem))
        IN  /\ parseOut.err = "none"
            /\ \A i \in 1..Len(b) : b[i] # SLASH
            /\ Len(rem) >= Len(b) /\ SubSeq(rem, 1, Len(b)) = b
            /\ Len(rem) > Len(b) => rem[Len(b) + 1] = SLASH
            /\ (p = <<>>) <=> OnlySlashes(rest)
            /\ p # <<>> =>
                  /\ Len(p) >= 2 /\ p[Len(p)] = SLASH /\ p[Len(p) - 1] # SLASH
                  /\ p[1] # SLASH
                  /\ \E i, j \in 0..Len(rest) :
                        rest = Slashes(i) \o SubSeq(p, 1, Len(p) - 1) \o Slashes(j)
            /\ inUri = Scheme \o <<"b", "/", "a", "/", "b">> =>
                  b = <<"b">> /\ p = <<"a", "/", "b", "/">>

\* gs://b/a/b has been parsed
C9_Witness ==
    /\ parsePc = "out"
    /\ inUri = Scheme \o <<"b", "/", "a", "/", "b">>
    /\ parseOut = [err |-> "none", bucket |-> <<"b">>, prefix |-> <<"a", "/", "b", "/">>]


\* download_gcs_prefix, or the folder downloader's main, has ended for a
\* prefix whose listing was not empty
PrefixRunOver == pc \in {"done", "path"} /\ futures # <<>>

MarkerTasks == {i \in DOMAIN futures : blobs[i].name[Len(blobs[i].name)] = SLASH}

(* C1: a failure of download_blob for one object is isolated: at the end of *)
(* the run the error count equals the number of objects whose task failed,  *)
(* no task was cancelled (the pool was not aborted), and every other        *)
(* object's result was folded into the tally.                               *)
C1_ErrorIsolated ==
    PrefixRunOver =>
        /\ errors = Count(futures, "raised")
        /\ Count(futures, "cancelled") = 0
        /\ Len(seen) + Count(futures, "raised") = Len(futures)

(* C2: when a run over a non-empty listing is over, the numbers of          *)
(* Downloaded, Skipped, DirectoryMarkerIgnored and Failed outcomes add up   *)
(* to the number of listed objects.                                         *)
C2_OutcomesSumToTotal ==
    PrefixRunOver =>
        CountResult(futures, OK_RESULT) + CountResult(futures, SKIP_RESULT)
          + CountResult(futures, DIR_RESULT) + Count(futures, "raised")
        = Len(futures)

\* the command line asks for nothing that can be downloaded: the locator of
\* gcs_folder_download.py has no gs:// scheme, or download_training_data.py
\* is given no path
UsageError ==
    IF entry = "folder" THEN parse_gcs_uri(gcs_uri).err # "none"
    ELSE paths_of(args) = <<>>

\* something went wrong in the run: a task failed, a listing failed, a
\* destination directory, the client or the pool could not be made, or the
\* command line was unusable
RunFailed ==
    taskFailures > 0 \/ listFailures > 0 \/ setupFailures > 0 \/ UsageError

(* C3 as claimed: the exit status is non-zero whenever a task failed or a    *)
(* listing failed, and zero when every task ended Downloaded, Skipped or     *)
(* DirectoryMarkerIgnored; for both entry points.  The zero half is stated   *)
(* here only for runs in which no listing failed either and at least one     *)
(* task ended Downloaded, the case least open to doubt.                      *)
C3_ZeroWhenTasksEndWell ==
    pc = "done" =>
        /\ (taskFailures > 0 \/ listFailures > 0) => status # 0
        /\ (/\ taskFailures = 0 /\ listFailures = 0
            /\ (completed > 0 \/ total_completed > 0)) => status = 0

(* C3, amended: the exit status is non-zero whenever a task failed or a      *)
(* listing failed, and also when a destination directory, the client or the  *)
(* pool could not be made, when the locator has no gs:// scheme and when no  *)
(* path is given; it is zero in every other run; for both entry points.      *)
C3_ExitStatus ==
    pc = "done" =>
        /\ status \in {0, 1}
        /\ status # 0 <=> RunFailed

\* a run of download_training_data.py has ended with status 1 although no
\* task and no listing failed and a task ended Downloaded: the directory of
\* another path, or the client for it, could not be made
C3_Witness ==
    /\ pc = "done" /\ entry = "training" /\ status = 1
    /\ taskFailures = 0 /\ listFailures = 0 /\ setupFailures > 0
    /\ total_completed > 0

(* C4: a second run with skip-existing, after a first run that ended with   *)
(* status 0, against the same bucket and destination, transfers nothing:    *)
(* no task of the second run opens a transfer or fails, and every object    *)
(* that is no marker and whose task has ended, ended Skipped.               *)
C4_RerunTransfersNothing ==
    (run > 1 /\ skip_existing /\ firstRun.status = 0) =>
        /\ transferred = {}
        /\ \A i \in DOMAIN futures \ MarkerTasks :
              futures[i].state \in {"pending", "running", "cancelled"}
              \/ futures[i] = Fut("done", SKIP_RESULT)

(* C5: an object whose key ends with "/" is never transferred and ends as   *)
(* DirectoryMarkerIgnored, with skip-existing on or off and whatever is in  *)
(* the destination; its task writes nothing to the local filesystem.        *)
C5_MarkerIgnored ==
    \A i \in MarkerTasks :
        /\ futures[i].state \in {"pending", "running", "cancelled"}
           \/ futures[i] = Fut("done", DIR_RESULT)
        /\ \A w \in DOMAIN wtask : wtask[w] = i => wpc[w] \in {"got", "return_DIR"}
        /\ blobs[i].name \notin transferred
        /\ blobs[i].name \notin wrote

\* a marker's task has ended, without skip-existing, beside a transferred file
C5_Witness ==
    /\ ~skip_existing
    /\ \E i \in MarkerTasks : futures[i] = Fut("done", DIR_RESULT)
    /\ transferred # {}

(* C7 as stated: the summary carries a Downloaded, a Skipped and a Failed   *)
(* count and the total, each the number of tasks that ended so.             *)
C7_SummaryWithSkipped ==
    summary # <<>> =>
        /\ "Skipped" \in DOMAIN summary
        /\ summary.Skipped = CountResult(futures, SKIP_RESULT)
        /\ summary.Successful = CountResult(futures, OK_RESULT)
        /\ summary.Errors = Count(futures, "raised")
        /\ summary.Total = Len(futures)

(* C7 amended: the summary carries the Downloaded count, the error count    *)
(* and the total, and no Skipped count; Downloaded is the number of tasks   *)
(* that ended Downloaded, the error count the number that failed, the total *)
(* the number of listed objects; for y/a downloaded, y/b skipped and the    *)
(* marker y/d/ it reports 1 downloaded, 0 failed, 3 total.                  *)
C7_SummaryCounts ==
    summary # <<>> =>
        /\ DOMAIN summary = {"Successful", "Errors", "Total"}
        /\ summary.Successful = CountResult(futures, OK_RESULT)
        /\ summary.Errors = Count(futures, "raised")
        /\ summary.Total = Len(futures)
        /\ (futures = <<Fut("done", OK_RESULT), Fut("done", SKIP_RESULT),
                        Fut("done", DIR_RESULT)>>)
              => summary = [Successful |-> 1, Errors |-> 0, Total |-> 3]

\* the summary of the run over y/a (no local copy), y/b (local copy of equal
\* size) and the marker y/d/, with skip-existing
C7_Witness ==
    /\ skip_existing /\ run = 1 /\ pc = "done" /\ entry = "folder"
    /\ Len(blobs) = 3
    /\ blobs[1].name = <<"y", "/", "a">> /\ blobs[2].name = <<"y", "/", "b">>
    /\ blobs[3].name = <<"y", "/", "d", "/">>
    /\ futures = <<Fut("done", OK_RESULT), Fut("done", SKIP_RESULT),
                   Fut("done", DIR_RESULT)>>
    /\ summary = [Successful |-> 1, Errors |-> 0, Total |-> 3]

(* C10: for a locator that does not begin with gs://, parsing fails with    *)
(* the format error and the run ends before any network call: no storage    *)
(* client is created, no listing is requested, no download task is started. *)
C10_BadLocatorAborts ==
    (entry = "folder" /\ ~(Len(gcs_uri) >= 5 /\ SubSeq(gcs_uri, 1, 5) = Scheme)) =>
        /\ clientCreated = 0 /\ listRequested = 0
        /\ futures = <<>> /\ transferred = {} /\ wrote = {}
        /\ pc \in {"parse", "done"}
        /\ pc = "done" => raised = "ValueError" /\ status # 0

\* the run on the locator k/y has ended with the format error
C10_Witness ==
    /\ entry = "folder" /\ gcs_uri = <<"k", "/", "y">>
    /\ pc = "done" /\ raised = "ValueError" /\ status = 1

(* C11 as stated: results are consumed as they complete.  Whenever a task   *)
(* has finished and its outcome is not yet folded into the tally, the       *)
(* aggregation loop can fold an outcome at once, also when an earlier       *)
(* task of the work list is still queued or running.                        *)
C11_ConsumedAsCompleted ==
    (pc = "consume" /\ \E j \in nextResult..Len(futures) : futures[j].state = "done")
        => ENABLED MainConsume

(* C11 amended: results are consumed in submission order.  The outcomes     *)
(* folded so far are those of the first tasks of the work list, in listing  *)
(* order; the outcome of a task that finished before an earlier one waits   *)
(* until every earlier outcome is folded.                                   *)
C11_ConsumedInSubmissionOrder ==
    futures # <<>> =>
        /\ nextResult = Len(seen) + 1
        /\ Len(seen) <= Len(futures)
        /\ \A k \in 1..Len(seen) :
              futures[k].state = "done" /\ seen[k] = futures[k].result
        /\ (Len(seen) < Len(futures) /\ futures[Len(seen) + 1].state # "done")
              => ~(ENABLED MainConsume)

\* the first outcome is folded, the second task is still in its transfer and
\* the third task has finished: its outcome waits
C11_Witness ==
    /\ pc = "consume" /\ Len(futures) = 3 /\ Len(seen) = 1
    /\ futures[2].state = "running" /\ futures[3].state = "done"
    /\ nextResult = 2


(* C12: once the batch is dispatched no queued task is cancelled or         *)
(* abandoned, also after another task has failed: no future is ever in the  *)
(* cancelled state, and when the run over a prefix has ended every task     *)
(* that was submitted has been taken by a worker and run to an outcome.     *)
C12_NoTaskCancelled ==
    /\ \A i \in DOMAIN futures : futures[i].state # "cancelled"
    /\ PrefixRunOver =>
          \A i \in DOMAIN futures : futures[i].state \in {"done", "raised"}

(* C13: every listed object is turned into exactly one task, and each task  *)
(* is executed by exactly one worker invocation: the work list is the       *)
(* listing, item by item; no task is started twice; no two workers hold the *)
(* same task; and when the run over a prefix has ended no task was dropped  *)
(* without being run.                                                       *)
C13_OneTaskOneRun ==
    /\ futures # <<>> =>
          /\ Len(work) = Len(blobs) /\ Len(futures) <= Len(work)
          /\ pc # "submit" => Len(futures) = Len(work)
          /\ \A i \in DOMAIN work : work[i].blob = blobs[i]
    /\ \A i \in DOMAIN started : started[i] <= 1
    /\ \A v, w \in DOMAIN wtask : (v # w /\ wtask[v] # 0) => wtask[v] # wtask[w]
    /\ PrefixRunOver => \A i \in DOMAIN started : started[i] = 1

\* the tasks whose download_blob is being executed
Executing == {i \in DOMAIN futures : futures[i].state = "running"}

(* C14: at every moment at most `workers` tasks are being executed, each by *)
(* one worker; a work item is taken off the queue only by an idle worker,   *)
(* and a worker lets go of its item only when the item has run to its       *)
(* outcome (or was cancelled before it started); the items are submitted    *)
(* one by one in listing order, results are consumed only when the whole    *)
(* listing is submitted, and nothing is submitted afterwards.               *)
C14_BoundedPool ==
    /\ [](/\ Cardinality(Executing) <= workers
          /\ \A i \in Executing : \E w \in 1..workers : wtask[w] = i
          /\ \A i \in DOMAIN futures : work[i].blob = blobs[i]
          /\ pc \in {"consume", "cancel", "exit_pool"} =>
                (Len(work) = Len(blobs) /\ Len(futures) = Len(blobs)))
    /\ [][/\ \A w \in DOMAIN wtask :
               (wtask[w] # 0 /\ wtask'[w] # wtask[w]) =>
                   /\ wtask'[w] = 0
                   /\ futures'[wtask[w]].state \in {"done", "raised", "cancelled"}
          /\ qnext' > qnext =>
                (qnext' = qnext + 1 /\ \E w \in 1..workers : wpc[w] = "idle")
          /\ (\E i \in DOMAIN started \cap DOMAIN started' : started'[i] > started[i])
                => \E w \in 1..workers : wpc[w] = "got" /\ started'[wtask[w]] > started[wtask[w]]
          /\ pc = "submit" =>
                (Len(futures') = Len(futures) \/ futures' = Append(futures, Pending))
          /\ pc \in {"consume", "cancel", "exit_pool"} =>
                (work' = work /\ Len(futures') = Len(futures))]_vars

\* both workers of a pool of two are in a transfer while a third task is queued
C14_Witness ==
    /\ workers = 2 /\ pc = "consume" /\ Cardinality(Executing) = 2
    /\ \E i \in DOMAIN futures : futures[i].state = "pending"

(* C15: the summary is emitted, and the dispatcher returns, only when every  *)
(* task has produced an outcome: no task is queued or running, no worker    *)
(* holds a task, and the outcome of every task has been folded into the     *)
(* tally, one by one.                                                       *)
C15_SummaryAfterAllOutcomes ==
    summary # <<>> =>
        /\ \A i \in DOMAIN futures : futures[i].state = "done"
        /\ \A w \in DOMAIN wtask : wtask[w] = 0 /\ wpc[w] = "idle"
        /\ qnext = Len(futures)
        /\ Len(seen) = Len(futures) /\ Len(futures) = Len(blobs)
        /\ \A i \in DOMAIN futures : started[i] = 1 /\ seen[i] = futures[i].result
        /\ pc \in {"done", "path"}

\* the summary of a run of two workers over three objects, one of them
\* transferred
C15_Witness ==
    /\ summary # <<>> /\ workers = 2 /\ Len(futures) = 3
    /\ \E i \in DOMAIN futures : futures[i] = Fut("done", OK_RESULT)
    /\ summary.Total = 3

\* the local destination path of a work item
DestinationOf(a) == item_path(a)

(* C16: within one run two listed objects with different keys are given     *)
(* different local destination paths, and no two workers are ever in a      *)
(* transfer to the same local file at the same time.                        *)
C16_DistinctDestinations ==
    /\ \A i, j \in DOMAIN work \ MarkerTasks :
          work[i].blob.name # work[j].blob.name
              => DestinationOf(work[i]) # DestinationOf(work[j])
    /\ \A v, w \in DOMAIN wtask :
          (v # w /\ wpc[v] = "transfer" /\ wpc[w] = "transfer")
              => DestinationOf(work[wtask[v]]) # DestinationOf(work[wtask[w]])

(* C17: a failure of the listing is fatal for its prefix. In the step in    *)
(* which the listing fails no task is created, no worker is started and     *)
(* nothing is transferred or written for the prefix, and the failure is an  *)
(* error of the run, unlike an empty listing: the folder downloader ends    *)
(* with the exception and a non-zero status, download_training_data counts  *)
(* one error, goes on with the next path and ends with a non-zero status.   *)
C17_ListingFailureFatal ==
    /\ [][listFailures' > listFailures =>
            /\ blobs' = <<>> /\ work' = <<>> /\ futures' = <<>> /\ started' = <<>>
            /\ \A w \in DOMAIN wtask' : wtask'[w] = 0 /\ wpc'[w] = "idle"
            /\ transferred' = {} /\ wrote' = {} /\ fs' = fs
            /\ summary' = <<>>
            /\ IF entry = "folder"
               THEN pc' = "done" /\ raised' = "ListingError" /\ status' # 0
               ELSE /\ pc' = "path" /\ pathIdx' = pathIdx + 1
                    /\ total_errors' = total_errors + 1]_vars
    /\ []((pc = "done" /\ listFailures > 0) => status # 0)

\* a run of download_training_data.py over two paths has ended in which the
\* listing of one path failed and an object of the other was downloaded
C17_Witness ==
    /\ entry = "training" /\ pc = "done" /\ Len(attempts) = 2
    /\ listFailures = 1 /\ total_errors = 1 /\ status = 1
    /\ total_completed > 0

\* result.startswith("OK"), ("SKIP") or ("DIR")
KnownResult(r) ==
    \/ (Len(r) >= 2 /\ SubSeq(r, 1, 2) = <<"O", "K">>)
    \/ (Len(r) >= 4 /\ SubSeq(r, 1, 4) = <<"S", "K", "I", "P">>)
    \/ (Len(r) >= 3 /\ SubSeq(r, 1, 3) = <<"D", "I", "R">>)

(* C18: the errors counter of the aggregation loop is never incremented.    *)
(* Every value a task returns starts with OK, SKIP or DIR, errors is 0 in   *)
(* every state, also after a task has failed, and the error count that the  *)
(* dispatcher reports and returns is 0.                                     *)
C18_ErrorsNeverCounted ==
    /\ errors = 0
    /\ \A i \in DOMAIN futures :
          futures[i].state = "done" => KnownResult(futures[i].result)
    /\ \A k \in DOMAIN seen : KnownResult(seen[k])
    /\ summary # <<>> => summary.Errors = 0
    /\ total_errors <= Len(attempts)

\* a run has ended in which the outcome of a downloaded file was folded and
\* a later task failed
C18_Witness ==
    /\ pc = "done" /\ taskFailures > 0 /\ errors = 0 /\ completed = 1
    /\ seen = <<OK_RESULT>> /\ Count(futures, "raised") > 0

\* an exception leaves the call of download_gcs_prefix in this step: mkdir of
\* the destination, the client, the listing, the pool, or a task of the pool
\* failed
PathRaises ==
    \/ /\ pc = "path" /\ pathIdx <= Len(paths_to_download)
       /\ mkdir_parents(fs, Components(paths_to_download[pathIdx])).exc
    \/ pc \in {"client", "submit"} /\ setupFailures' > setupFailures
    \/ pc = "list" /\ listFailures' > listFailures
    \/ pc = "exit_pool" /\ raised # "none" /\ pc' # "exit_pool"

(* C19: download_training_data.main attempts every requested path once, in  *)
(* the order given: the paths attempted so far are the first of the         *)
(* requested ones, and all of them when main returns; an exception raised   *)
(* while one path is downloaded adds exactly one to total_errors and main   *)
(* goes on with the next path; main returns 0 if and only if total_errors   *)
(* is 0 after the last path.                                                *)
C19_EveryPathOnce ==
    /\ []((entry = "training" /\ paths_to_download # <<>>) =>
            /\ Len(attempts) <= Len(paths_to_download)
            /\ attempts = SubSeq(paths_to_download, 1, Len(attempts))
            /\ Len(attempts) = (IF pc \in {"path", "done"} THEN pathIdx - 1 ELSE pathIdx)
            /\ pc = "done" =>
                  /\ attempts = paths_to_download
                  /\ status \in {0, 1}
                  /\ status = 0 <=> total_errors = 0)
    /\ [][(entry = "training" /\ PathRaises) =>
            /\ total_errors' = total_errors + 1
            /\ total_completed' = total_completed
            /\ pc' = "path" /\ pathIdx' = pathIdx + 1]_vars

\* main has returned 1 after two paths, one of which raised and the other of
\* which was downloaded
C19_Witness ==
    /\ entry = "training" /\ pc = "done" /\ Len(paths_to_download) = 2
    /\ attempts = paths_to_download
    /\ taskFailures > 0 /\ listFailures = 0
    /\ total_errors = 1 /\ total_completed > 0 /\ status = 1

=============================================================================
